---- MODULE Spec2Model ----
(***************************************************************************)
(* radmap: orchestration of load -> compute -> write in the two drivers.   *)
(*   src/src/main.rs        the interactive (non-blocking) driver: one     *)
(*                          eframe update() per redraw tick                *)
(*   src/src/bin/radmap.rs  the command-line (blocking) driver             *)
(* One process is one of the two drivers; Init chooses which.  Threads are *)
(* the driver thread (pc) and the spawned loader, compute and write        *)
(* workers.  A panic of the driver thread ends the process (pc "crashed"   *)
(* resp. "cli_panicked", with the message in panic).                       *)
(***************************************************************************)
EXTENDS Integers, Sequences, FiniteSets, TLC

\* ------------------------------------------------------------------ bounds
MaxRuns == 2
MaxExtent == 2
MaxFeatures == 2
MaxFlags == 2
MaxWorkers == 3

\* ------------------------------------------------------------- value sets
\* a path is the file name cut at its dots: volume.nii.gz is <<"volume", "nii", "gz">>
NoPath == <<>>
NoDims == <<>>
NoRun == 0
NoTotal == -1
\* the shapes a volume file may hold (what a codec read returns)
Shapes == {<<1, 1, z>> : z \in 1..MaxExtent}
\* the files the user can name
VolumeFiles == {<<"volume", "nrrd">>, <<"volume", "nii", "gz">>}
MaskFiles == {<<"mask", "nrrd">>}
OutputDirs == {<<"out">>}
RunIds == 1..MaxRuns

\* ArrayDim::numel: the product of the extents
numel(dims) == dims[1] * dims[2] * dims[3]

\* GLCMFeature: the variants by discriminant (f as usize), in declaration order
Features == 0..(MaxFeatures - 1)

\* the lower-case names of the variants (f.to_string().to_lowercase())
FeatureNames == <<"contrast", "energy", "homogeneity", "entropy", "correlation">>
feature_name(f) == FeatureNames[f + 1]

\* what a -f or --omit flag may hold: the name of a variant or another word
FlagWords == {feature_name(f) : f \in Features} \cup {"bogus"}

\* GLCMFeature::from_str: the variant of that name, -1 for Err
from_str(word) ==
    IF \E f \in Features : feature_name(f) = word
    THEN CHOOSE f \in Features : feature_name(f) = word
    ELSE -1

NoThread == [st |-> "none", dims |-> NoDims, codec |-> "", path |-> NoPath]
NoCompute == [st |-> "none", total |-> 0, mismatch |-> FALSE, ctr |-> NoRun, visited |-> 0,
              features |-> {}, emitted |-> <<>>]

VARIABLES
    args,                  \* radmap.rs Args (the CLI driver), <<>> in the GUI driver
    pc,                    \* position of the driver thread
    panic,                 \* message of the driver thread's panic, "" if none
    volume_path,           \* InputSelector.volume_path: NoPath for None
    mask_path,             \* InputSelector.mask_path: NoPath for None
    output_dir,            \* OutputSelector.output_dir: NoPath for None
    result,                \* GLCMLauncher.result: NoRun or the run that computed it
    ref_header,            \* GLCMLauncher.ref_header: NoRun or the launch that loaded it
    handle,                \* GLCMLauncher.handle: NoRun or the compute task
    is_running,            \* GLCMLauncher.is_running
    succeeded,             \* GLCMLauncher.succeeded
    progress,              \* Progress.progress: which Arc<AtomicUsize> the driver holds
    total_vox_to_compute,  \* Progress.total_vox_to_compute, NoTotal for None
    out_handle,            \* OutputSelector.handle: 0 or the index of the write task
    is_writing_output,     \* OutputSelector.is_writing_output
    is_complete,           \* OutputSelector.is_complete
    vol_handle,            \* the volume loader thread of the current launch
    mask_handle,           \* the mask loader thread of the current launch
    launches,              \* number of LAUNCH clicks handled so far
    compute,               \* compute worker threads, by run
    counter,               \* the AtomicUsize cells, by id (0: Progress::default)
    write,                 \* write worker threads, in spawn order
    pb_position,           \* indicatif ProgressBar position (CLI)
    features,              \* FeatureSelector.selected_features (GUI), opts.features (CLI)
    joined                 \* history: joins performed on each compute task

vars == <<args, pc, panic, volume_path, mask_path, output_dir, result, ref_header,
          handle, is_running, succeeded, progress, total_vox_to_compute,
          out_handle, is_writing_output, is_complete, vol_handle, mask_handle,
          launches, compute, counter, write, pb_position, joined, features>>

inputVars == <<volume_path, mask_path, output_dir>>
launcherVars == <<result, ref_header, handle, is_running, succeeded>>
progressVars == <<progress, total_vox_to_compute>>
outputVars == <<out_handle, is_writing_output, is_complete>>
loaderVars == <<vol_handle, mask_handle>>
workerVars == <<compute, counter, write>>

\* ------------------------------------------------------------------- Init
\* GUI::default(): every selector, the launcher and Progress at their Default
InitCommon ==
    /\ panic = ""
    /\ volume_path = NoPath
    /\ mask_path = NoPath
    /\ output_dir = NoPath
    /\ result = NoRun
    /\ ref_header = NoRun
    /\ handle = NoRun
    /\ is_running = FALSE
    /\ succeeded = FALSE
    /\ progress = 0
    /\ total_vox_to_compute = NoTotal
    /\ out_handle = 0
    /\ is_writing_output = FALSE
    /\ is_complete = FALSE
    /\ vol_handle = NoThread
    /\ mask_handle = NoThread
    /\ launches = 0
    /\ compute = [r \in RunIds |-> NoCompute]
    /\ counter = [c \in 0..MaxRuns |-> 0]
    /\ write = <<>>
    /\ pb_position = 0
    /\ joined = [r \in RunIds |-> 0]
    /\ features = Features

InitGui ==
    /\ args = <<>>
    /\ pc = "idle"
    /\ InitCommon

\* the values of the repeatable flags -f and --omit
FlagLists == UNION {[1..n -> FlagWords] : n \in 0..MaxFlags}

\* Args::parse(): <<progress, input_vol, mask, all_features, feature, omit>>;
\* the volume and output directory exist (radmap.rs 98-104)
InitCli ==
    /\ args \in {<<p, v, m, a, f, o>> : p \in BOOLEAN, v \in VolumeFiles,
                                        m \in {NoPath} \cup MaskFiles, a \in BOOLEAN,
                                        f \in FlagLists, o \in FlagLists}
    /\ pc = "cli_resolve"
    /\ InitCommon

Init == InitGui \/ InitCli

IsGui == args = <<>>
Alive == pc \notin {"crashed", "cli_panicked", "cli_done"}

\* --------------------------------------------------- StageTask primitives
\* JoinHandle::is_finished: the thread has terminated, normally or by a panic
is_finished(t) == t.st \in {"done", "failed"}

\* mutant of join_ok: the outcome of the join is taken for a result unexamined
join_ok_any(t) == TRUE

\* JoinHandle::join: Ok with the closure's value unless the thread panicked
\* (.expect(..) panics on Err)
join_ok(t) == t.st = "done"

\* the driver thread panics: the process ends with the message
Panics(msg) ==
    /\ pc' = IF IsGui THEN "crashed" ELSE "cli_panicked"
    /\ panic' = msg

\* ------------------------------------------ interactive driver (main.rs)
UIEvents ==
    {<<"none", NoPath>>}
        \cup {<<"volume", p>> : p \in {NoPath} \cup VolumeFiles}
        \cup {<<"mask", p>> : p \in {NoPath} \cup MaskFiles}
        \cup {<<"output", p>> : p \in {NoPath} \cup OutputDirs}

\* update_data_loader: a path field loses focus (None unless the path exists)
\* or a file is picked in the dialog
update_data_loader(ev) ==
    /\ volume_path' = IF ev[1] = "volume" THEN ev[2] ELSE volume_path
    /\ mask_path' = IF ev[1] = "mask" THEN ev[2] ELSE mask_path

\* update_output_selector, the directory field: lost focus or a picked directory
update_output_dir(ev) ==
    output_dir' = IF ev[1] = "output" THEN ev[2] ELSE output_dir

\* mutant of TakeResult: the pending result is read and left in place
TakeResult_left == result

\* launcher.result.take(): the pending result is None afterwards
TakeResult == NoRun

\* update_output_selector, "try to write output volumes": with a directory
\* confirmed, a pending result is taken and handed to a new write thread
WriteHandoff ==
    IF output_dir' # NoPath /\ result # NoRun
    THEN /\ result' = TakeResult
         /\ IF ref_header = NoRun
            THEN /\ Panics("called Option::unwrap() on a None value: ref_header")
                 /\ is_writing_output' = FALSE
                 /\ UNCHANGED <<ref_header, out_handle, write>>
            ELSE /\ ref_header' = NoRun
                 /\ IF volume_path' = NoPath
                    THEN /\ Panics("called Option::unwrap() on a None value: volume_path")
                         /\ is_writing_output' = FALSE
                         /\ UNCHANGED <<out_handle, write>>
                    ELSE /\ write' = Append(write, [st |-> "running", run |-> result,
                                                    header |-> ref_header,
                                                    features |-> features])
                         /\ out_handle' = Len(write) + 1
                         /\ is_writing_output' = TRUE
                         /\ pc' = "write_check"
                         /\ panic' = panic
         /\ is_complete' = FALSE
    ELSE /\ pc' = "write_check"
         /\ UNCHANGED <<panic, result, ref_header, out_handle, write,
                        is_writing_output, is_complete>>

\* update_feature_selector: "deselect all", "select all", or the check box of
\* one feature changed (the first thing a tick does)
update_feature_selector ==
    /\ IsGui /\ pc = "idle"
    /\ \/ features' = {}
       \/ features' = Features
       \/ \E f \in Features :
             features' = IF f \in features THEN features \ {f} ELSE features \cup {f}
    /\ UNCHANGED <<args, pc, panic, inputVars, launcherVars, progressVars, outputVars,
                   loaderVars, launches, workerVars, pb_position, joined>>

\* GUI::update, first part of a tick: update_data_loader, then
\* update_output_selector up to the write handoff
TickInputs ==
    /\ IsGui /\ pc = "idle"
    /\ \E ev \in UIEvents :
          /\ update_data_loader(ev)
          /\ update_output_dir(ev)
          /\ WriteHandoff
    /\ UNCHANGED <<args, features, handle, is_running, succeeded, progressVars, loaderVars,
                   launches, compute, counter, pb_position, joined>>

\* update_output_selector, the end: an outstanding write handle that is
\* finished is dropped and the run marked complete
UpdateOutputPoll ==
    /\ IsGui /\ pc = "write_check"
    /\ IF out_handle # 0 /\ is_finished(write[out_handle])
       THEN /\ is_writing_output' = FALSE
            /\ is_complete' = TRUE
            /\ out_handle' = 0
       ELSE UNCHANGED outputVars
    /\ pc' = "launch"
    /\ UNCHANGED <<args, features, panic, inputVars, launcherVars, progressVars, loaderVars,
                   launches, workerVars, pb_position, joined>>

\* update_glcm_launcher: LAUNCH is shown when the volume path and the output
\* directory are set; a click spawns the loader threads
LaunchClicked ==
    /\ IsGui /\ pc = "launch"
    /\ volume_path # NoPath /\ output_dir # NoPath
    /\ launches < MaxRuns
    /\ launches' = launches + 1
    /\ vol_handle' = [st |-> "running", dims |-> NoDims, codec |-> "",
                      path |-> volume_path]
    /\ mask_handle' = IF mask_path # NoPath
                      THEN [st |-> "running", dims |-> NoDims, codec |-> "",
                            path |-> mask_path]
                      ELSE NoThread
    /\ pc' = "join_vol"
    /\ UNCHANGED <<args, features, panic, inputVars, launcherVars, progressVars, outputVars,
                   workerVars, pb_position, joined>>

\* vol_handle.join().expect(..): waits for the volume loader
JoinVol ==
    /\ IsGui /\ pc = "join_vol"
    /\ is_finished(vol_handle)
    /\ IF vol_handle.st = "failed"
       THEN Panics("failed to retrieve volume from loader thread")
       ELSE pc' = "join_mask" /\ panic' = panic
    /\ UNCHANGED <<args, features, inputVars, launcherVars, progressVars, outputVars,
                   loaderVars, launches, workerVars, pb_position, joined>>

\* mask_handle.map(|h| h.join().expect(..)): waits for the mask loader, if any
JoinMask ==
    /\ IsGui /\ pc = "join_mask"
    /\ mask_handle.st = "none" \/ is_finished(mask_handle)
    /\ IF mask_handle.st = "failed"
       THEN Panics("failed to retrieve mask from loader thread")
       ELSE pc' = "spawn" /\ panic' = panic
    /\ UNCHANGED <<args, features, inputVars, launcherVars, progressVars, outputVars,
                   loaderVars, launches, workerVars, pb_position, joined>>

\* mutant of LaunchCounter: the cell the driver already holds is used again
LaunchCounter_reused(r) == progress

\* progress.progress = Arc::new(AtomicUsize::new(0)): the cell of launch r
LaunchCounter(r) == r

\* progress.total_vox_to_compute = Some(vol_dims.numel())
LaunchTotal(dims) == numel(dims)

\* mutant of LaunchHeader: a header already held is kept
LaunchHeader_kept(r) == IF ref_header # NoRun THEN ref_header ELSE r

\* launcher.ref_header = Some(vol_header): the header the loader of launch r read
LaunchHeader(r) == r

\* update_glcm_launcher: total and a new counter are installed, the compute
\* thread is spawned (its closure owns the loaded volume and mask), and the
\* launcher's fields are set
SpawnCompute ==
    /\ IsGui /\ pc = "spawn"
    /\ LET r == launches
           c == LaunchCounter(r)
       IN /\ total_vox_to_compute' = LaunchTotal(vol_handle.dims)
          /\ progress' = c
          /\ counter' = [counter EXCEPT ![c] = 0]
          /\ compute' = [compute EXCEPT ![r] =
                 [st |-> "running", total |-> numel(vol_handle.dims),
                  mismatch |-> mask_handle.st = "done" /\ mask_handle.dims # vol_handle.dims,
                  ctr |-> c, visited |-> 0, features |-> features, emitted |-> <<>>]]
          /\ is_running' = TRUE
          /\ succeeded' = FALSE
          /\ ref_header' = LaunchHeader(r)
          /\ handle' = r
    /\ vol_handle' = NoThread
    /\ mask_handle' = NoThread
    /\ pc' = "check"
    /\ UNCHANGED <<args, features, panic, inputVars, result, outputVars, launches, write,
                   pb_position, joined>>

\* mutant of PollFinished: the join is reached without asking is_finished
PollFinished_unchecked(h) == TRUE

\* if h.is_finished() on the handle taken from the launcher
PollFinished(h) == is_finished(compute[h])

\* update_progress: with a total set, the counter is loaded and the fraction
\* drawn; the value drawn now (NoTotal: no bar)
update_progress ==
    IF total_vox_to_compute # NoTotal THEN counter[progress] ELSE NoTotal

\* update_glcm_launcher after the LAUNCH block (entered at "launch" when the
\* button is not shown or not clicked): launcher.handle.take(); a finished
\* task goes on to the join; an unfinished one is put back and the tick ends
\* with update_progress
PollCompute ==
    /\ IsGui /\ pc \in {"launch", "check"}
    /\ IF handle # NoRun /\ PollFinished(handle)
       THEN pc' = "join_compute"
       ELSE pc' = "idle"
    /\ UNCHANGED <<args, features, panic, inputVars, launcherVars, progressVars, outputVars,
                   loaderVars, launches, workerVars, pb_position, joined>>

\* mutant of HandleAfterJoin: the joined handle is put back
HandleAfterJoin_kept(h) == h

\* the launcher's handle after the join: take() left None
HandleAfterJoin(h) == NoRun

\* h.join().expect(..): the result is stored and the flags set; the tick ends
\* with update_progress
JoinCompute ==
    /\ IsGui /\ pc = "join_compute"
    /\ is_finished(compute[handle])
    /\ joined' = [joined EXCEPT ![handle] = @ + 1]
    /\ handle' = HandleAfterJoin(handle)
    /\ IF ~join_ok(compute[handle])
       THEN /\ Panics("failed to retrieve handle from calc thread")
            /\ UNCHANGED <<result, is_running, succeeded>>
       ELSE /\ result' = handle
            /\ is_running' = FALSE
            /\ succeeded' = TRUE
            /\ pc' = "idle"
            /\ panic' = panic
    /\ UNCHANGED <<args, features, inputVars, ref_header, progressVars, outputVars, loaderVars,
                   launches, workerVars, pb_position>>

\* ---------------------------------------------------------- worker threads
\* Path::extension: the part of the file name after its last dot, "" for None
extension(p) == IF Len(p) > 1 THEN p[Len(p)] ELSE ""

\* what a codec read ends with: the data with the shape the file holds, or a
\* panic (unreadable file)
LoaderOutcomes ==
    {[st |-> "failed", dims |-> NoDims]} \cup {[st |-> "done", dims |-> d] : d \in Shapes}

\* a load of path p that ended as o after codec c was called ("": no codec)
Loaded(o, p, c) == [st |-> o.st, dims |-> o.dims, codec |-> c, path |-> p]

\* a load of path p that panicked before any codec was called
Refused(p) == [st |-> "failed", dims |-> NoDims, codec |-> "", path |-> p]

\* the loader closures of the GUI: extension().unwrap(), then read_nifti for
\* "nii" and "nii.gz" and read_nrrd for everything else
loader_codec(p) ==
    IF extension(p) \in {"nii", "nii.gz"} THEN "nifti" ELSE "nrrd"

loader_closure(h) ==
    IF extension(h.path) = ""
    THEN {Refused(h.path)}
    ELSE {Loaded(o, h.path, loader_codec(h.path)) : o \in LoaderOutcomes}

LoadVolume ==
    /\ Alive /\ vol_handle.st = "running"
    /\ vol_handle' \in loader_closure(vol_handle)
    /\ UNCHANGED <<args, features, pc, panic, inputVars, launcherVars, progressVars,
                   outputVars, mask_handle, launches, workerVars, pb_position, joined>>

LoadMask ==
    /\ Alive /\ mask_handle.st = "running"
    /\ mask_handle' \in loader_closure(mask_handle)
    /\ UNCHANGED <<args, features, pc, panic, inputVars, launcherVars, progressVars,
                   outputVars, vol_handle, launches, workerVars, pb_position, joined>>

\* the compute closure of the GUI: assert_eq!(mask_dims.shape_ns(), vol_dims.shape_ns())
ComputeAssert(r) ==
    /\ Alive /\ compute[r].st = "running" /\ compute[r].mismatch
    /\ compute' = [compute EXCEPT ![r].st = "failed"]
    /\ UNCHANGED <<args, features, pc, panic, inputVars, launcherVars, progressVars, outputVars,
                   loaderVars, launches, counter, write, pb_position, joined>>

\* run_glcm_map: one element visited, one fetch_add(1) on the progress sink
ComputeTick(r) ==
    /\ Alive /\ compute[r].st = "running" /\ ~compute[r].mismatch
    /\ compute[r].visited < compute[r].total
    /\ compute' = [compute EXCEPT ![r].visited = @ + 1]
    /\ counter' = [counter EXCEPT ![compute[r].ctr] = @ + 1]
    /\ UNCHANGED <<args, features, pc, panic, inputVars, launcherVars, progressVars, outputVars,
                   loaderVars, launches, write, pb_position, joined>>

\* run_glcm_map returns after every element was visited
ComputeFinish(r) ==
    /\ Alive /\ compute[r].st = "running" /\ ~compute[r].mismatch
    /\ compute[r].visited = compute[r].total
    /\ compute' = [compute EXCEPT ![r].st = "done"]
    /\ UNCHANGED <<args, features, pc, panic, inputVars, launcherVars, progressVars, outputVars,
                   loaderVars, launches, counter, write, pb_position, joined>>

\* run_glcm_map panics
ComputeFail(r) ==
    /\ Alive /\ compute[r].st = "running" /\ ~compute[r].mismatch
    /\ compute' = [compute EXCEPT ![r].st = "failed"]
    /\ UNCHANGED <<args, features, pc, panic, inputVars, launcherVars, progressVars, outputVars,
                   loaderVars, launches, counter, write, pb_position, joined>>

\* the write stages: let i = f as usize; &data[i * vol_stride..(i + 1) * vol_stride]
block_index(f) == f

\* the results of a compute task: one block per feature it was launched with
result_blocks(c) == Cardinality(c.features)

\* the write closure: every volume written and true returned, or a panic
WriteWorker(w) ==
    /\ Alive /\ write[w].st = "running"
    /\ \E st \in {"done", "failed"} : write' = [write EXCEPT ![w].st = st]
    /\ UNCHANGED <<args, features, pc, panic, inputVars, launcherVars, progressVars, outputVars,
                   loaderVars, launches, compute, counter, pb_position, joined>>

\* ------------------------------------ command-line driver (bin/radmap.rs)
ArgProgress == args[1]
ArgInputVol == args[2]
ArgMask == args[3]
ArgAllFeatures == args[4]
ArgFeature == args[5]
ArgOmit == args[6]

\* some word of the flag list is no feature name: from_str(..).unwrap_or_else(panic)
HasInvalid(words) == \E i \in 1..Len(words) : from_str(words[i]) = -1

\* for f in args.feature { opts.features.insert(feature, ..) }
RECURSIVE insert_flags(_, _)
insert_flags(set, words) ==
    IF words = <<>> THEN set
    ELSE insert_flags(set \cup {from_str(Head(words))}, Tail(words))

\* mutant of remove_flags: the --omit flags are not applied
remove_flags_ignored(set, words) == set

\* for to_omit in args.omit { opts.features.remove(&feature) }
RECURSIVE remove_flags(_, _)
remove_flags(set, words) ==
    IF words = <<>> THEN set
    ELSE remove_flags(set \ {from_str(Head(words))}, Tail(words))

\* main, the feature options: without --all-features the set is cleared and the
\* -f features inserted; the --omit features are removed; an empty set panics.
\* args.feature and args.omit are moved into the loops.
CliResolve ==
    /\ ~IsGui /\ pc = "cli_resolve"
    /\ LET included == IF ArgAllFeatures THEN features ELSE insert_flags({}, ArgFeature)
           resolved == remove_flags(included, ArgOmit)
       IN IF (~ArgAllFeatures /\ HasInvalid(ArgFeature)) \/ HasInvalid(ArgOmit)
          THEN /\ Panics("Invalid GLCM feature")
               /\ features' = features
          ELSE IF resolved = {}
          THEN /\ Panics("No features specified!")
               /\ features' = resolved
          ELSE /\ pc' = "cli_load" /\ panic' = panic
               /\ features' = resolved
    /\ args' = [args EXCEPT ![5] = <<>>, ![6] = <<>>]
    /\ UNCHANGED <<inputVars, launcherVars, progressVars, outputVars, loaderVars,
                   launches, workerVars, pb_position, joined>>

\* read_volume, the dispatch on the extension: the codec, "" for the panic
\* "Only nrrds and niftis are supported"
read_volume_codec(p) ==
    IF extension(p) \in {"nii", "nii.gz"} THEN "nifti"
    ELSE IF extension(p) \in {"nhdr", "nrrd"} THEN "nrrd"
    ELSE ""

\* read_volume(path): what the call ends with ("failed": it panicked)
read_volume(p) ==
    IF read_volume_codec(p) = ""
    THEN {Refused(p)}
    ELSE {Loaded(o, p, read_volume_codec(p)) : o \in LoaderOutcomes}

\* the message read_volume panics with: its own, or the codec's
read_volume_panic(h) ==
    IF h.codec = "" THEN "Only nrrds and niftis are supported. Sorry :)"
    ELSE "read_" \o h.codec

\* main: read_volume(input_vol), then with --mask read_volume(mask) and
\* assert_eq!(dims.shape_ns(), mask_dims.shape_ns()), all on the main thread
CliLoad ==
    /\ ~IsGui /\ pc = "cli_load"
    /\ \E vol \in read_volume(ArgInputVol) :
          IF vol.st = "failed"
          THEN /\ Panics(read_volume_panic(vol))
               /\ vol_handle' = vol
               /\ mask_handle' = mask_handle
          ELSE IF ArgMask = NoPath
          THEN /\ pc' = "cli_spawn" /\ panic' = panic
               /\ vol_handle' = vol
               /\ mask_handle' = NoThread
          ELSE \E mask \in read_volume(ArgMask) :
                  /\ vol_handle' = vol
                  /\ mask_handle' = mask
                  /\ IF mask.st = "failed"
                     THEN Panics(read_volume_panic(mask))
                     ELSE IF mask.dims # vol.dims
                     THEN Panics("input volume and mask must have the same shape")
                     ELSE pc' = "cli_spawn" /\ panic' = panic
    /\ UNCHANGED <<args, features, inputVars, launcherVars, progressVars, outputVars,
                   launches, workerVars, pb_position, joined>>

\* mutant of vox_to_process: the total is one short of the element count
vox_to_process_short(dims) == numel(dims) - 1

\* let vox_to_process = dims.numel() as u64
vox_to_process(dims) == numel(dims)

\* main: vox_to_process, the counter and the compute thread; ProgressBar::new
CliSpawn ==
    /\ ~IsGui /\ pc = "cli_spawn"
    /\ total_vox_to_compute' = vox_to_process(vol_handle.dims)
    /\ progress' = 1
    /\ counter' = [counter EXCEPT ![1] = 0]
    /\ compute' = [compute EXCEPT ![1] =
           [st |-> "running", total |-> numel(vol_handle.dims), mismatch |-> FALSE,
            ctr |-> 1, visited |-> 0, features |-> features, emitted |-> <<>>]]
    /\ launches' = 1
    /\ handle' = 1
    /\ pb_position' = 0
    /\ pc' = IF ArgProgress THEN "cli_poll" ELSE "cli_join"
    /\ UNCHANGED <<args, features, panic, inputVars, result, ref_header, is_running, succeeded,
                   outputVars, loaderVars, write, joined>>

\* main: while pb.position() < vox_to_process { load; set_position; sleep }
CliPoll ==
    /\ ~IsGui /\ pc = "cli_poll"
    /\ IF pb_position < total_vox_to_compute
       THEN /\ pb_position' = counter[progress]
            /\ pc' = pc
       ELSE /\ pc' = "cli_join"
            /\ pb_position' = pb_position
    /\ UNCHANGED <<args, features, panic, inputVars, launcherVars, progressVars, outputVars,
                   loaderVars, launches, workerVars, joined>>

\* main: h.join().expect("Failed to join thread")
CliJoin ==
    /\ ~IsGui /\ pc = "cli_join"
    /\ is_finished(compute[handle])
    /\ joined' = [joined EXCEPT ![handle] = @ + 1]
    /\ handle' = NoRun
    /\ IF ~join_ok(compute[handle])
       THEN Panics("Failed to join thread") /\ result' = result
       ELSE pc' = "cli_write" /\ panic' = panic /\ result' = handle
    /\ UNCHANGED <<args, features, inputVars, ref_header, is_running, succeeded, progressVars,
                   outputVars, loaderVars, launches, workerVars, pb_position>>

\* main: the write loop, on the main thread; write_volume returns or panics
CliWrite ==
    /\ ~IsGui /\ pc = "cli_write"
    /\ \E ok \in BOOLEAN :
          IF ok
          THEN pc' = "cli_done" /\ panic' = panic
          ELSE Panics("write_volume")
    /\ result' = NoRun
    /\ UNCHANGED <<args, features, inputVars, ref_header, handle, is_running, succeeded,
                   progressVars, outputVars, loaderVars, launches, workerVars,
                   pb_position, joined>>

\* ------------------------------------------------------ specifications
GuiNext ==
    \/ TickInputs
    \/ UpdateOutputPoll
    \/ LaunchClicked
    \/ JoinVol
    \/ JoinMask
    \/ SpawnCompute
    \/ PollCompute
    \/ JoinCompute

CliNext ==
    \/ CliResolve
    \/ CliLoad
    \/ CliSpawn
    \/ CliPoll
    \/ CliJoin
    \/ CliWrite

WorkerNext ==
    \/ LoadVolume
    \/ LoadMask
    \/ \E r \in RunIds : ComputeAssert(r)
    \/ \E r \in RunIds : ComputeTick(r)
    \/ \E r \in RunIds : ComputeFinish(r)
    \/ \E r \in RunIds : ComputeFail(r)
    \/ \E w \in 1..Len(write) : WriteWorker(w)

Next == GuiNext \/ CliNext \/ WorkerNext

Spec == Init /\ [][Next]_vars

\* The command-line driver alone.  The main thread and the compute thread
\* are scheduled by the operating system: each keeps taking its steps while
\* it can.  A panic of the engine is not forced.
CliCompute ==
    \/ ComputeTick(1)
    \/ ComputeFinish(1)

CliStep == CliNext \/ CliCompute \/ ComputeFail(1)

CliSpec == InitCli /\ [][CliStep]_vars /\ WF_vars(CliNext) /\ WF_vars(CliCompute)

\* The interactive driver on the runs C6 is about: LAUNCH is clicked once,
\* with a mask (if any) of the volume's shape; once launched, the volume path
\* and the output directory stay confirmed; no worker panics.  The redraw
\* thread keeps ticking (ctx.request_repaint() ends every update) and the
\* workers keep running; the click itself is not forced.
OnceTickInputs ==
    /\ TickInputs
    /\ launches > 0 => volume_path' # NoPath /\ output_dir' # NoPath

OnceLaunch ==
    /\ LaunchClicked
    /\ launches = 0

SameShapes(v, m) == v.st = "done" /\ m.st = "done" => v.dims = m.dims

OnceLoadVolume ==
    /\ LoadVolume
    /\ vol_handle'.st = "done" /\ SameShapes(vol_handle', mask_handle')

OnceLoadMask ==
    /\ LoadMask
    /\ mask_handle'.st = "done" /\ SameShapes(vol_handle', mask_handle')

OnceWrite == \E w \in 1..Len(write) : WriteWorker(w) /\ write'[w].st = "done"

OnceTick ==
    \/ OnceTickInputs
    \/ UpdateOutputPoll
    \/ JoinVol
    \/ JoinMask
    \/ SpawnCompute
    \/ PollCompute
    \/ JoinCompute

OnceWorkers ==
    \/ OnceLoadVolume
    \/ OnceLoadMask
    \/ ComputeTick(1)
    \/ ComputeFinish(1)
    \/ OnceWrite

OnceNext == OnceTick \/ OnceLaunch \/ OnceWorkers

OnceSpec == InitGui /\ [][OnceNext]_vars /\ WF_vars(OnceTick) /\ WF_vars(OnceWorkers)

\* The interactive driver with the feature check boxes in use, up to the first
\* launch and the run it starts (in Spec the selection stays as
\* FeatureSelector::default() made it: every feature selected).
FeatTick ==
    \/ update_feature_selector
    \/ TickInputs
    \/ UpdateOutputPoll
    \/ OnceLaunch
    \/ JoinVol
    \/ JoinMask
    \/ SpawnCompute
    \/ PollCompute
    \/ JoinCompute

FeatNext == FeatTick \/ WorkerNext

FeatSpec == InitGui /\ [][FeatNext]_vars

\* The engine with its parallel workers, under the command-line driver: the
\* state main is in after thread::spawn with the progress display on, for a
\* volume of n * k elements that n workers share equally.
EngineInit ==
    /\ \E v \in VolumeFiles, n \in 1..MaxWorkers, k \in 1..MaxExtent :
          /\ args = <<TRUE, v, NoPath, TRUE, <<>>, <<>>>>
          /\ vol_handle = Loaded([st |-> "done", dims |-> <<1, n, k>>], v,
                                 read_volume_codec(v))
          /\ read_volume_codec(v) # ""
          /\ total_vox_to_compute = vox_to_process(<<1, n, k>>)
          /\ compute = [r \in RunIds |->
                IF r = 1
                THEN [st |-> "running", total |-> n * k, mismatch |-> FALSE, ctr |-> 1,
                      visited |-> 0, features |-> Features,
                      emitted |-> [w \in 1..n |-> 0]]
                ELSE NoCompute]
    /\ pc = "cli_poll"
    /\ panic = ""
    /\ volume_path = NoPath
    /\ mask_path = NoPath
    /\ output_dir = NoPath
    /\ result = NoRun
    /\ ref_header = NoRun
    /\ handle = 1
    /\ is_running = FALSE
    /\ succeeded = FALSE
    /\ progress = 1
    /\ out_handle = 0
    /\ is_writing_output = FALSE
    /\ is_complete = FALSE
    /\ mask_handle = NoThread
    /\ launches = 1
    /\ counter = [c \in 0..MaxRuns |-> 0]
    /\ write = <<>>
    /\ pb_position = 0
    /\ joined = [r \in RunIds |-> 0]
    /\ features = Features

\* mutant of fetch_add: the worker stores its own count of elements
fetch_add_own(cell, own) == own + 1

\* progress.fetch_add(1, Ordering::Relaxed): one atomic read-modify-write of
\* the shared cell (own: the elements this worker has counted so far)
fetch_add(cell, own) == cell + 1

\* one worker of the engine visits one of its elements and ticks the counter
EmitTick(w) ==
    /\ Alive /\ compute[1].st = "running"
    /\ w \in DOMAIN compute[1].emitted
    /\ compute[1].emitted[w] < compute[1].total \div Len(compute[1].emitted)
    /\ compute' = [compute EXCEPT ![1].visited = @ + 1, ![1].emitted[w] = @ + 1]
    /\ counter' = [counter EXCEPT ![compute[1].ctr] = fetch_add(@, compute[1].emitted[w])]
    /\ UNCHANGED <<args, features, pc, panic, inputVars, launcherVars, progressVars,
                   outputVars, loaderVars, launches, write, pb_position, joined>>

EngineNext ==
    \/ \E w \in 1..MaxWorkers : EmitTick(w)
    \/ ComputeFinish(1)
    \/ CliPoll
    \/ CliJoin
    \/ CliWrite

EngineSpec == EngineInit /\ [][EngineNext]_vars

\* ------------------------------------------------------------------ claims
RunningWorkers == {r \in RunIds : compute[r].st = "running"}

\* compute tasks whose handle the driver no longer holds and never joined
dropped == {r \in RunIds : compute[r].st # "none" /\ joined[r] = 0 /\ handle # r}

\* C1: a mask whose shape differs from the volume's never gets a compute
\* worker: no compute thread exists whose closure holds mismatched shapes.
C1_NoComputeOnShapeMismatch ==
    \A r \in RunIds : compute[r].st # "none" => ~compute[r].mismatch

\* C2: while the driver holds the counter of one run, the value it draws
\* (the bar of update_progress, the position of the command-line bar) never
\* decreases, and when the driver finds the compute task finished normally
\* the counter it holds equals the total it holds.
C2_ProgressMonotoneAndTotal ==
    /\ [][progress' = progress /\ total_vox_to_compute # NoTotal
            => update_progress' >= update_progress]_vars
    /\ [][pb_position' >= pb_position]_vars
    /\ [](pc \in {"join_compute", "cli_join"} /\ handle # NoRun
             /\ compute[handle].st = "done"
          => counter[progress] = total_vox_to_compute)

C2_Witness ==
    /\ pc = "join_compute" /\ handle # NoRun
    /\ compute[handle].st = "done"
    /\ launches = 2 /\ compute[1].st = "running"
    /\ compute[1].visited > 0 /\ compute[1].visited < compute[1].total

\* C3: once the compute worker of the command-line driver has terminated
\* abnormally, the driver eventually exits by a panic.
C3_FailedComputeStopsDriver ==
    (compute[1].st = "failed") ~> (pc = "cli_panicked")

\* C4: the tick thread of the interactive driver survives the join of a
\* compute worker that terminated abnormally.
C4_TickSurvivesWorkerFailure ==
    (IsGui /\ \E r \in RunIds : joined[r] > 0 /\ compute[r].st = "failed")
        => pc # "crashed" /\ ~is_running /\ ~succeeded /\ result = NoRun

\* C5: at most one compute worker spawned by the interactive driver is alive,
\* and no compute handle is overwritten without having been joined.
C5_SingleComputeWorker ==
    IsGui => Cardinality(RunningWorkers) <= 1 /\ dropped = {}

\* the status of the run, read off the driver's flags and position
Status ==
    IF is_complete THEN "Complete"
    ELSE IF is_writing_output THEN "Writing"
    ELSE IF succeeded THEN "Computed"
    ELSE IF is_running THEN "Running"
    ELSE IF pc = "spawn" THEN "Validated"
    ELSE IF pc \in {"join_vol", "join_mask"} THEN "Loading"
    ELSE "Idle"

StatusOrder ==
    {<<"Idle", "Loading">>, <<"Loading", "Validated">>, <<"Validated", "Running">>,
     <<"Running", "Computed">>, <<"Computed", "Writing">>, <<"Writing", "Complete">>}

C7_NoJoinWaits ==
    /\ pc = "join_vol" => is_finished(vol_handle)
    /\ pc = "join_mask" => mask_handle.st # "running"
    /\ pc = "join_compute" => handle # NoRun /\ is_finished(compute[handle])

\* C7 amended: whenever the tick thread stands at the join of the compute
\* task, that task has already terminated.
C7_ComputeJoinNeverWaits ==
    pc = "join_compute" => handle # NoRun /\ is_finished(compute[handle])

C7_Witness ==
    /\ pc = "join_compute" /\ handle = 2
    /\ compute[1].st = "running"

\* C8: every compute task is joined at most once; the join clears the
\* launcher's handle; a poll that finds the task unfinished leaves the handle
\* in place and joins nothing.
C8_ComputeJoinedOnce ==
    /\ [](\A r \in RunIds : joined[r] <= 1)
    /\ [][IsGui /\ pc = "join_compute" /\ pc' # pc
            => handle' = NoRun /\ joined'[handle] = joined[handle] + 1]_vars
    /\ [][IsGui /\ pc \in {"launch", "check"} /\ pc' \notin {pc, "join_vol"}
               /\ handle # NoRun
               /\ ~is_finished(compute[handle])
            => handle' = handle /\ joined' = joined /\ pc' = "idle"]_vars

C8_Witness ==
    /\ IsGui /\ pc = "launch" /\ handle = NoRun
    /\ \E r \in RunIds : joined[r] = 1 /\ compute[r].st = "done"

\* C9: every computed result gets exactly one write task, spawned on the
\* first tick on which the result is pending with the directory confirmed,
\* and the result is cleared on that tick.
C9_OneWritePerResult ==
    /\ [](\A r \in RunIds : Cardinality({w \in 1..Len(write) : write[w].run = r}) <= 1)
    /\ [][IsGui /\ pc = "idle" /\ pc' # pc /\ result # NoRun /\ output_dir' # NoPath
            => /\ Len(write') = Len(write) + 1
               /\ write'[Len(write')].run = result
               /\ result' = NoRun]_vars

\* C10: the poll that finds the write task finished after a panic of the
\* write worker does not mark the run complete.
C10_FailedWriteNotComplete ==
    [][IsGui /\ pc = "write_check" /\ pc' # pc /\ out_handle # 0
          /\ write[out_handle].st = "failed"
        => ~is_complete']_vars

\* C11: no load (a loader thread of the interactive driver, a read_volume call
\* of the command-line driver) and no compute worker exists for a launch whose
\* feature set is empty, and the command-line driver that resolved an empty
\* set has stopped with the empty-feature-set message.
C11_EmptyFeatureSetRefused ==
    /\ vol_handle.st # "none" \/ mask_handle.st # "none" => features # {}
    /\ \A r \in RunIds : compute[r].st # "none" => compute[r].features # {}
    /\ ~IsGui /\ pc # "cli_resolve" /\ features = {} => panic = "No features specified!"

\* C12 as stated: when the command-line driver has left its poll loop and
\* stands at the join, the counter equals the total and the compute task has
\* terminated.
C12_LoopExitMeansFinished ==
    ~IsGui /\ ArgProgress /\ pc = "cli_join"
        => counter[progress] = total_vox_to_compute /\ is_finished(compute[handle])

\* C12 amended: when the command-line driver has left its poll loop and stands
\* at the join, the counter and the bar equal the total and the worker has
\* visited every element (it may still be running).
C12_LoopExitMeansAllTicked ==
    ~IsGui /\ ArgProgress /\ pc = "cli_join"
        => /\ counter[progress] = total_vox_to_compute
           /\ pb_position = total_vox_to_compute
           /\ compute[handle].visited = compute[handle].total

C12_Witness ==
    /\ ~IsGui /\ ArgProgress /\ pc = "cli_join"
    /\ compute[handle].st = "running"
    /\ counter[progress] = total_vox_to_compute /\ total_vox_to_compute > 1

RECURSIVE SumTo(_, _)
SumTo(f, n) == IF n = 0 THEN 0 ELSE f[n] + SumTo(f, n - 1)

\* every worker of the engine has ticked its share of the elements
AllEmitted(c) ==
    \A w \in DOMAIN c.emitted : c.emitted[w] = c.total \div Len(c.emitted)

\* C13: with the workers of the engine ticking the shared counter concurrently,
\* the counter always equals the number of ticks emitted so far (none is lost),
\* it equals the total once every worker has ticked its share, and neither the
\* counter nor a value the driver has read exceeds the total.
C13_NoLostTick ==
    LET c == compute[1]
    IN c.emitted # <<>> =>
          /\ counter[c.ctr] = SumTo(c.emitted, Len(c.emitted))
          /\ AllEmitted(c) => counter[c.ctr] = c.total
          /\ counter[c.ctr] <= c.total
          /\ pb_position <= c.total

C13_Witness ==
    /\ Len(compute[1].emitted) = MaxWorkers
    /\ AllEmitted(compute[1])
    /\ counter[progress] = compute[1].total
    /\ pb_position > 0 /\ pb_position < compute[1].total
    /\ pc = "cli_poll"

\* C14: every write stage was started for a run whose compute task had been
\* joined and had ended normally: the write tasks of the interactive driver and
\* the write loop of the command-line driver.
C14_WriteAfterComputeJoined ==
    /\ \A w \in 1..Len(write) :
          joined[write[w].run] = 1 /\ compute[write[w].run].st = "done"
    /\ pc = "cli_write" => joined[1] = 1 /\ compute[1].st = "done"

C14_Witness ==
    /\ Len(write) >= 1 /\ write[1].st = "running" /\ write[1].run = 2
    /\ compute[1].st = "running"

\* C15: when a load of the current launch has failed, no compute worker
\* exists for that launch, and the interactive driver is still alive.
C15_LoadFailureStopsRun ==
    vol_handle.st = "failed" \/ mask_handle.st = "failed"
        => /\ \A r \in RunIds : r >= launches => compute[r].st = "none"
           /\ IsGui => pc # "crashed"

\* the features a flag list names
Named(words) == {from_str(words[i]) : i \in 1..Len(words)}

\* C16: the option resolution of the command-line driver leaves (every known
\* feature with --all-features, otherwise the features the -f flags name)
\* minus the features the --omit flags name; a flag that names no feature
\* stops the driver instead.
C16_ResolvedFeatureSet ==
    [][pc = "cli_resolve" /\ pc' # pc /\ panic' # "Invalid GLCM feature"
          => features' = (IF ArgAllFeatures THEN Features ELSE Named(ArgFeature))
                            \ Named(ArgOmit)]_vars

C16_Witness ==
    /\ pc = "cli_load" /\ ArgAllFeatures
    /\ Cardinality(features) = 1

\* the kind of file a path names by the end of its name: .nii and .nii.gz are
\* volumetric images, .nrrd and .nhdr raw volumes
Kind(p) ==
    IF Len(p) > 1 /\ p[Len(p)] = "nii" THEN "image"
    ELSE IF Len(p) > 2 /\ p[Len(p) - 1] = "nii" /\ p[Len(p)] = "gz" THEN "image"
    ELSE IF Len(p) > 1 /\ p[Len(p)] \in {"nrrd", "nhdr"} THEN "raw"
    ELSE "other"

\* C17: every load that has ended called the image codec for an image path and
\* the raw codec for a raw-volume path, and called no codec for any other path.
C17_ExtensionDispatch ==
    \A h \in {vol_handle, mask_handle} :
        h.st \in {"done", "failed"} =>
            /\ Kind(h.path) = "image" => h.codec = "nifti"
            /\ Kind(h.path) = "raw" => h.codec = "nrrd"
            /\ Kind(h.path) = "other" => h.codec = ""

\* the compute tasks spawned so far, and the last of them
Spawned == {r \in RunIds : compute[r].st # "none"}
LatestRun == CHOOSE r \in Spawned : \A q \in Spawned : q <= r

\* C18: in the interactive driver every run ticks a counter of its own, which
\* always holds exactly the number of elements that run has visited (zero at
\* the launch, never reset, never ticked by another run), and the counter and
\* the total the driver holds are those of the last run launched.
C18_CounterPerRun ==
    IsGui =>
        /\ \A r \in Spawned : counter[compute[r].ctr] = compute[r].visited
        /\ \A r, q \in Spawned : r # q => compute[r].ctr # compute[q].ctr
        /\ Spawned # {} =>
              /\ progress = compute[LatestRun].ctr
              /\ total_vox_to_compute = compute[LatestRun].total
              /\ counter[progress] = compute[LatestRun].visited

C18_Witness ==
    /\ IsGui /\ Spawned = {1, 2} /\ LatestRun = 2 /\ progress = compute[2].ctr
    /\ compute[1].st = "running" /\ compute[1].visited = compute[1].total
    /\ compute[1].total > 1
    /\ compute[2].st = "running" /\ counter[progress] = 0

\* the position of feature f in the feature set S, in declaration order
position(f, S) == Cardinality({g \in S : g < f})

\* the requested feature f is read from its own block, inside the results of c
ReadsOwnBlock(f, c) ==
    /\ block_index(f) = position(f, c.features)
    /\ block_index(f) < result_blocks(c)

\* C19: every write stage (the write tasks of the interactive driver, the write
\* loop of the command-line driver) reads, for each feature it writes, the
\* block at that feature's position in the set the run was computed for, and
\* the block lies inside the results.
C19_BlockPerFeature ==
    /\ \A w \in 1..Len(write) :
          \A f \in write[w].features : ReadsOwnBlock(f, compute[write[w].run])
    /\ pc = "cli_write" => \A f \in features : ReadsOwnBlock(f, compute[1])

\* C20: every write task of the interactive driver writes the features its
\* run was launched with.
C20_WritesLaunchedFeatures ==
    \A w \in 1..Len(write) : write[w].features = compute[write[w].run].features

\* the write workers that have not ended
RunningWrites == {w \in 1..Len(write) : write[w].st = "running"}

\* C21: in the interactive driver at most one write worker is alive, and while
\* is_complete is set none is.
C21_SingleWriteWorker ==
    IsGui =>
        /\ Cardinality(RunningWrites) <= 1
        /\ is_complete => RunningWrites = {}

\* C22: the write handoff of the interactive driver never finds the volume
\* path gone: the tick thread never panics on volume_path.as_ref().unwrap().
C22_HandoffFindsVolumePath ==
    IsGui => panic # "called Option::unwrap() on a None value: volume_path"

\* C23: at the end of every tick of the interactive driver, is_running is set
\* exactly when a compute handle is outstanding and is_writing_output exactly
\* when a write handle is outstanding; is_running and succeeded are never both
\* set, nor are is_writing_output and is_complete.
C23_FlagsMatchHandles ==
    IsGui /\ pc = "idle" =>
        /\ is_running <=> handle # NoRun
        /\ is_writing_output <=> out_handle # 0
        /\ ~(is_running /\ succeeded)
        /\ ~(is_writing_output /\ is_complete)

C23_Witness ==
    /\ IsGui /\ pc = "idle"
    /\ is_running /\ handle = 2 /\ compute[1].st = "done" /\ joined[1] = 1
    /\ is_writing_output /\ out_handle # 0 /\ write[out_handle].run = 1

\* C24: whenever a computed result is pending in the interactive driver, the
\* reference header is present and is the one loaded by the launch that
\* computed the result.
C24_HeaderOfPendingResult ==
    IsGui /\ result # NoRun => ref_header = result

C24_Witness ==
    /\ IsGui /\ result = 2 /\ ref_header = 2
    /\ compute[1].st = "running"

====
